---- MODULE Spec2Model ----
(***************************************************************************)
(* Model of src/main.rs: a terminal pixel-art editor.  DrawingWidget holds *)
(* the grid and the cursor, ColorPickerOverlay the palette and its         *)
(* selection index, App composes them and dispatches key events.           *)
(*                                                                         *)
(* Vec<T> is a 1-based sequence here, so Rust's v[i] is v[i + 1].          *)
(* Option<T> is a sequence of length 0 (None) or 1 (Some).                 *)
(***************************************************************************)
EXTENDS Integers, Sequences, FiniteSets, TLC

\* ---------------------------------------------------------------- bounds
\* Number of key events dispatched from App::new() in Spec.
MaxKeys == 8
\* Number of operations applied from an arbitrary cursor in SpecWidget.
MaxCalls == 1
\* Largest small delta handed to a direct move_cursor call.
MaxDelta == 1
\* Number of events main reads in SpecMain.
MaxEvents == 6

\* ------------------------------------------------------- program constants
\* DrawingWidget::new(16, 16)
Width == 16
Height == 16
\* Palette row length used by Up / Down in ColorPickerOverlay::handle_input
NumColumns == 4

\* ------------------------------------------------------------------ types
\* enum Tool
Tool == {"Pencil", "Eraser", "ColorPicker"}

\* The KeyCode values App::handle_input distinguishes, and "a" for the
\* catch-all arm.  Char('q') never reaches handle_input: the driver breaks.
KeyCode == {"Up", "Down", "Left", "Right", "Enter", "1", "2", "3", " ", "a"}

None == <<>>
Some(v) == <<v>>
IsSome(o) == o # <<>>
Unwrap(o) == o[1]

VARIABLES
    drawing_widget,       \* App.drawing_widget: [grid, cursor]
    tools_widget,         \* App.tools_widget: [selected_tool]
    color_picker_overlay, \* App.color_picker_overlay: Option<[colors, selected_color]>
    selected_tool,        \* App.selected_tool
    selected_color,       \* App.selected_color
    panicked,             \* TRUE once an index out of range has aborted the process
    key,                  \* the event last dispatched through App::handle_input
    call,                 \* the operation last applied directly to the widget
    nkeys,                \* number of events dispatched
    ncalls,               \* number of direct operations applied
    pc,                   \* the statement of main that runs next
    raw_mode,             \* the terminal is in raw mode
    alternate_screen,     \* the terminal shows the alternate screen
    result,               \* <<"running">>, or what main returned: <<"Ok">>, or
                          \* <<"Err", s>> from the `?` of statement s
    event,                \* the event last returned by event::read
    frame,                \* Option: what terminal.draw last put on the screen
    draws,                \* frames drawn since the last event was read
    nevents               \* number of events read by main

appVars == <<drawing_widget, tools_widget, color_picker_overlay,
             selected_tool, selected_color>>
mainVars == <<pc, raw_mode, alternate_screen, result, event, frame, draws,
              nevents>>
vars == <<drawing_widget, tools_widget, color_picker_overlay,
          selected_tool, selected_color, panicked, key, call, nkeys, ncalls,
          pc, raw_mode, alternate_screen, result, event, frame, draws, nevents>>

\* ------------------------------------------------------------ DrawingWidget
DrawingWidget_new(width, height) ==
    [grid   |-> [y \in 1..height |-> [x \in 1..width |-> "Reset"]],
     cursor |-> <<0, 0>>]

\* Variant: the upper bounds are tested with <= instead of <.
move_cursor_inclusive(self, dx, dy) ==
    LET new_x == self.cursor[1] + dx
        new_y == self.cursor[2] + dy
        cx == IF new_x >= 0 /\ new_x <= Len(self.grid[1])
              THEN new_x ELSE self.cursor[1]
        cy == IF new_y >= 0 /\ new_y <= Len(self.grid)
              THEN new_y ELSE self.cursor[2]
    IN  [self EXCEPT !.cursor = <<cx, cy>>]

\* Variant: the upper bounds are tested against the length less one.
move_cursor_short(self, dx, dy) ==
    LET new_x == self.cursor[1] + dx
        new_y == self.cursor[2] + dy
        cx == IF new_x >= 0 /\ new_x < Len(self.grid[1]) - 1
              THEN new_x ELSE self.cursor[1]
        cy == IF new_y >= 0 /\ new_y < Len(self.grid) - 1
              THEN new_y ELSE self.cursor[2]
    IN  [self EXCEPT !.cursor = <<cx, cy>>]

\* Variant: a move out of range on either axis is rejected as a whole.
move_cursor_all_or_nothing(self, dx, dy) ==
    LET new_x == self.cursor[1] + dx
        new_y == self.cursor[2] + dy
    IN  IF /\ new_x >= 0 /\ new_x < Len(self.grid[1])
           /\ new_y >= 0 /\ new_y < Len(self.grid)
        THEN [self EXCEPT !.cursor = <<new_x, new_y>>]
        ELSE self

move_cursor(self, dx, dy) ==
    LET new_x == self.cursor[1] + dx
        new_y == self.cursor[2] + dy
        cx == IF new_x >= 0 /\ new_x < Len(self.grid[1])
              THEN new_x ELSE self.cursor[1]
        cy == IF new_y >= 0 /\ new_y < Len(self.grid)
              THEN new_y ELSE self.cursor[2]
    IN  [self EXCEPT !.cursor = <<cx, cy>>]

\* Variant: the column is tested with <= instead of <.
set_cell_color_guard_inclusive(self, x, y) ==
    y < Len(self.grid) /\ x <= Len(self.grid[y + 1])

\* The test guarding the write in set_cell_color.
set_cell_color_guard(self, x, y) ==
    y < Len(self.grid) /\ x < Len(self.grid[y + 1])

\* self.grid[y][x] is a checked index: out of range aborts the process.
IndexInRange(grid, x, y) ==
    /\ y + 1 \in DOMAIN grid
    /\ x + 1 \in DOMAIN grid[y + 1]

set_cell_color_panics(self, x, y) ==
    set_cell_color_guard(self, x, y) /\ ~IndexInRange(self.grid, x, y)

\* Variant: the row and column indices are swapped in the write.
set_cell_color_transposed(self, x, y, color) ==
    IF set_cell_color_guard(self, x, y) /\ IndexInRange(self.grid, y, x)
    THEN [self EXCEPT !.grid[x + 1][y + 1] = color]
    ELSE self

set_cell_color(self, x, y, color) ==
    IF set_cell_color_guard(self, x, y) /\ IndexInRange(self.grid, x, y)
    THEN [self EXCEPT !.grid[y + 1][x + 1] = color]
    ELSE self

\* -------------------------------------------------------------- ToolsWidget
ToolsWidget_new == [selected_tool |-> "Pencil"]

\* ------------------------------------------------------- ColorPickerOverlay
ColorPickerOverlay_new ==
    [colors |-> <<"Black", "Red", "Green", "Yellow",
                  "Blue", "Magenta", "Cyan", "White">>,
     selected_color |-> 0]

\* Variant: Enter puts the selection back to the first entry.
ColorPickerOverlay_handle_input_enter_resets(self, k) ==
    CASE k = "Up" ->
           IF self.selected_color >= NumColumns
           THEN [self EXCEPT !.selected_color = @ - NumColumns] ELSE self
      [] k = "Down" ->
           IF self.selected_color + NumColumns < Len(self.colors)
           THEN [self EXCEPT !.selected_color = @ + NumColumns] ELSE self
      [] k = "Left" ->
           IF self.selected_color > 0
           THEN [self EXCEPT !.selected_color = @ - 1] ELSE self
      [] k = "Right" ->
           IF self.selected_color + 1 < Len(self.colors)
           THEN [self EXCEPT !.selected_color = @ + 1] ELSE self
      [] k = "Enter" -> [self EXCEPT !.selected_color = 0]
      [] OTHER -> self

\* Variant: Down tests the new index with <= instead of <.
ColorPickerOverlay_handle_input_down_inclusive(self, k) ==
    CASE k = "Up" ->
           IF self.selected_color >= NumColumns
           THEN [self EXCEPT !.selected_color = @ - NumColumns] ELSE self
      [] k = "Down" ->
           IF self.selected_color + NumColumns <= Len(self.colors)
           THEN [self EXCEPT !.selected_color = @ + NumColumns] ELSE self
      [] k = "Left" ->
           IF self.selected_color > 0
           THEN [self EXCEPT !.selected_color = @ - 1] ELSE self
      [] k = "Right" ->
           IF self.selected_color + 1 < Len(self.colors)
           THEN [self EXCEPT !.selected_color = @ + 1] ELSE self
      [] k = "Enter" -> self
      [] OTHER -> self

\* Variant: the Right arm carries the test of the Down arm.
ColorPickerOverlay_handle_input_right_guard_copied(self, k) ==
    CASE k = "Up" ->
           IF self.selected_color >= NumColumns
           THEN [self EXCEPT !.selected_color = @ - NumColumns] ELSE self
      [] k = "Down" ->
           IF self.selected_color + NumColumns < Len(self.colors)
           THEN [self EXCEPT !.selected_color = @ + NumColumns] ELSE self
      [] k = "Left" ->
           IF self.selected_color > 0
           THEN [self EXCEPT !.selected_color = @ - 1] ELSE self
      [] k = "Right" ->
           IF self.selected_color + NumColumns < Len(self.colors)
           THEN [self EXCEPT !.selected_color = @ + 1] ELSE self
      [] k = "Enter" -> self
      [] OTHER -> self

ColorPickerOverlay_handle_input(self, k) ==
    CASE k = "Up" ->
           IF self.selected_color >= NumColumns
           THEN [self EXCEPT !.selected_color = @ - NumColumns] ELSE self
      [] k = "Down" ->
           IF self.selected_color + NumColumns < Len(self.colors)
           THEN [self EXCEPT !.selected_color = @ + NumColumns] ELSE self
      [] k = "Left" ->
           IF self.selected_color > 0
           THEN [self EXCEPT !.selected_color = @ - 1] ELSE self
      [] k = "Right" ->
           IF self.selected_color + 1 < Len(self.colors)
           THEN [self EXCEPT !.selected_color = @ + 1] ELSE self
      [] k = "Enter" -> self
      [] OTHER -> self

\* ---------------------------------------------------------------------- App
\* Variant: the chosen colour starts as the terminal default, Color::Reset.
App_new_reset_colour ==
    [drawing_widget       |-> DrawingWidget_new(Width, Height),
     tools_widget         |-> ToolsWidget_new,
     color_picker_overlay |-> None,
     selected_tool        |-> "Pencil",
     selected_color       |-> "Reset"]

App_new ==
    [drawing_widget       |-> DrawingWidget_new(Width, Height),
     tools_widget         |-> ToolsWidget_new,
     color_picker_overlay |-> None,
     selected_tool        |-> "Pencil",
     selected_color       |-> "White"]

\* The App value held by the state variables.
app ==
    [drawing_widget       |-> drawing_widget,
     tools_widget         |-> tools_widget,
     color_picker_overlay |-> color_picker_overlay,
     selected_tool        |-> selected_tool,
     selected_color       |-> selected_color]

\* Position of a colour in the palette (0-based), 0 if it is not there.
PaletteIndexOf(color) ==
    LET colors == ColorPickerOverlay_new.colors
        hits == {i \in 1 .. Len(colors) : colors[i] = color}
    IN  IF hits = {} THEN 0 ELSE (CHOOSE i \in hits : TRUE) - 1

\* Variant: the Eraser arm writes the chosen colour like the Pencil arm.
App_handle_input_normal_eraser_paints(self, k) ==
    CASE k = "1" -> [self EXCEPT !.selected_tool = "Pencil"]
      [] k = "2" -> [self EXCEPT !.selected_tool = "Eraser"]
      [] k = "3" -> [self EXCEPT
                       !.color_picker_overlay = Some(ColorPickerOverlay_new)]
      [] k = "Up" ->
           [self EXCEPT !.drawing_widget = move_cursor(@, 0, -1)]
      [] k = "Down" ->
           [self EXCEPT !.drawing_widget = move_cursor(@, 0, 1)]
      [] k = "Left" ->
           [self EXCEPT !.drawing_widget = move_cursor(@, -1, 0)]
      [] k = "Right" ->
           [self EXCEPT !.drawing_widget = move_cursor(@, 1, 0)]
      [] k = " " ->
           LET x == self.drawing_widget.cursor[1]
               y == self.drawing_widget.cursor[2]
           IN  CASE self.selected_tool \in {"Pencil", "Eraser"} ->
                      [self EXCEPT !.drawing_widget =
                          set_cell_color(@, x, y, self.selected_color)]
                 [] OTHER -> self
      [] OTHER -> self

\* Variant: '3' opens the overlay on the colour currently chosen.
App_handle_input_normal_reopen_at_current(self, k) ==
    CASE k = "1" -> [self EXCEPT !.selected_tool = "Pencil"]
      [] k = "2" -> [self EXCEPT !.selected_tool = "Eraser"]
      [] k = "3" -> [self EXCEPT
                       !.color_picker_overlay =
                           Some([ColorPickerOverlay_new EXCEPT
                                   !.selected_color =
                                       PaletteIndexOf(self.selected_color)])]
      [] k = "Up" ->
           [self EXCEPT !.drawing_widget = move_cursor(@, 0, -1)]
      [] k = "Down" ->
           [self EXCEPT !.drawing_widget = move_cursor(@, 0, 1)]
      [] k = "Left" ->
           [self EXCEPT !.drawing_widget = move_cursor(@, -1, 0)]
      [] k = "Right" ->
           [self EXCEPT !.drawing_widget = move_cursor(@, 1, 0)]
      [] k = " " ->
           LET x == self.drawing_widget.cursor[1]
               y == self.drawing_widget.cursor[2]
           IN  CASE self.selected_tool = "Pencil" ->
                      [self EXCEPT !.drawing_widget =
                          set_cell_color(@, x, y, self.selected_color)]
                 [] self.selected_tool = "Eraser" ->
                      [self EXCEPT !.drawing_widget =
                          set_cell_color(@, x, y, "Reset")]
                 [] OTHER -> self
      [] OTHER -> self

\* Variant: '2' also clears the cell under the cursor at once.
App_handle_input_normal_eraser_at_once(self, k) ==
    CASE k = "1" -> [self EXCEPT !.selected_tool = "Pencil"]
      [] k = "2" ->
           [self EXCEPT
              !.selected_tool = "Eraser",
              !.drawing_widget =
                  set_cell_color(@, self.drawing_widget.cursor[1],
                                 self.drawing_widget.cursor[2], "Reset")]
      [] k = "3" -> [self EXCEPT
                       !.color_picker_overlay = Some(ColorPickerOverlay_new)]
      [] k = "Up" ->
           [self EXCEPT !.drawing_widget = move_cursor(@, 0, -1)]
      [] k = "Down" ->
           [self EXCEPT !.drawing_widget = move_cursor(@, 0, 1)]
      [] k = "Left" ->
           [self EXCEPT !.drawing_widget = move_cursor(@, -1, 0)]
      [] k = "Right" ->
           [self EXCEPT !.drawing_widget = move_cursor(@, 1, 0)]
      [] k = " " ->
           LET x == self.drawing_widget.cursor[1]
               y == self.drawing_widget.cursor[2]
           IN  CASE self.selected_tool = "Pencil" ->
                      [self EXCEPT !.drawing_widget =
                          set_cell_color(@, x, y, self.selected_color)]
                 [] self.selected_tool = "Eraser" ->
                      [self EXCEPT !.drawing_widget =
                          set_cell_color(@, x, y, "Reset")]
                 [] OTHER -> self
      [] OTHER -> self

\* Variant: Enter paints like the space key.
App_handle_input_normal_enter_paints(self, k) ==
    CASE k = "1" -> [self EXCEPT !.selected_tool = "Pencil"]
      [] k = "2" -> [self EXCEPT !.selected_tool = "Eraser"]
      [] k = "3" -> [self EXCEPT
                       !.color_picker_overlay = Some(ColorPickerOverlay_new)]
      [] k = "Up" ->
           [self EXCEPT !.drawing_widget = move_cursor(@, 0, -1)]
      [] k = "Down" ->
           [self EXCEPT !.drawing_widget = move_cursor(@, 0, 1)]
      [] k = "Left" ->
           [self EXCEPT !.drawing_widget = move_cursor(@, -1, 0)]
      [] k = "Right" ->
           [self EXCEPT !.drawing_widget = move_cursor(@, 1, 0)]
      [] k \in {" ", "Enter"} ->
           LET x == self.drawing_widget.cursor[1]
               y == self.drawing_widget.cursor[2]
           IN  CASE self.selected_tool = "Pencil" ->
                      [self EXCEPT !.drawing_widget =
                          set_cell_color(@, x, y, self.selected_color)]
                 [] self.selected_tool = "Eraser" ->
                      [self EXCEPT !.drawing_widget =
                          set_cell_color(@, x, y, "Reset")]
                 [] OTHER -> self
      [] OTHER -> self

\* The else branch of App::handle_input: no overlay is open.
App_handle_input_normal(self, k) ==
    CASE k = "1" -> [self EXCEPT !.selected_tool = "Pencil"]
      [] k = "2" -> [self EXCEPT !.selected_tool = "Eraser"]
      [] k = "3" -> [self EXCEPT
                       !.color_picker_overlay = Some(ColorPickerOverlay_new)]
      [] k = "Up" ->
           [self EXCEPT !.drawing_widget = move_cursor(@, 0, -1)]
      [] k = "Down" ->
           [self EXCEPT !.drawing_widget = move_cursor(@, 0, 1)]
      [] k = "Left" ->
           [self EXCEPT !.drawing_widget = move_cursor(@, -1, 0)]
      [] k = "Right" ->
           [self EXCEPT !.drawing_widget = move_cursor(@, 1, 0)]
      [] k = " " ->
           LET x == self.drawing_widget.cursor[1]
               y == self.drawing_widget.cursor[2]
           IN  CASE self.selected_tool = "Pencil" ->
                      [self EXCEPT !.drawing_widget =
                          set_cell_color(@, x, y, self.selected_color)]
                 [] self.selected_tool = "Eraser" ->
                      [self EXCEPT !.drawing_widget =
                          set_cell_color(@, x, y, "Reset")]
                 [] OTHER -> self
      [] OTHER -> self

\* Variant: with the overlay open, a key other than Enter is also handled as
\* in Normal mode after the overlay has seen it.
App_handle_input_leaky(self, k) ==
    IF IsSome(self.color_picker_overlay)
    THEN LET overlay == ColorPickerOverlay_handle_input(
                            Unwrap(self.color_picker_overlay), k)
         IN  IF k = "Enter"
             THEN [self EXCEPT
                     !.selected_color = overlay.colors[overlay.selected_color + 1],
                     !.color_picker_overlay = None]
             ELSE [App_handle_input_normal(self, k) EXCEPT
                     !.color_picker_overlay = Some(overlay)]
    ELSE App_handle_input_normal(self, k)

\* Variant: moving the selection in the overlay already commits the
\* highlighted colour.
App_handle_input_live_preview(self, k) ==
    IF IsSome(self.color_picker_overlay)
    THEN LET overlay == ColorPickerOverlay_handle_input(
                            Unwrap(self.color_picker_overlay), k)
         IN  IF k = "Enter"
             THEN [self EXCEPT
                     !.selected_color = overlay.colors[overlay.selected_color + 1],
                     !.color_picker_overlay = None]
             ELSE [self EXCEPT
                     !.selected_color = overlay.colors[overlay.selected_color + 1],
                     !.color_picker_overlay = Some(overlay)]
    ELSE App_handle_input_normal(self, k)

App_handle_input(self, k) ==
    IF IsSome(self.color_picker_overlay)
    THEN LET overlay == ColorPickerOverlay_handle_input(
                            Unwrap(self.color_picker_overlay), k)
         IN  IF k = "Enter"
             THEN [self EXCEPT
                     !.selected_color = overlay.colors[overlay.selected_color + 1],
                     !.color_picker_overlay = None]
             ELSE [self EXCEPT !.color_picker_overlay = Some(overlay)]
    ELSE App_handle_input_normal(self, k)

\* The driver's loop body applied to a list of events: each one dispatched
\* to completion before the next.
RECURSIVE RunKeys(_, _)
RunKeys(self, ks) ==
    IF ks = <<>> THEN self
    ELSE RunKeys(App_handle_input(self, Head(ks)), Tail(ks))

\* The App values the loop can produce from self with the events in ks, in
\* any number and order: seen so far, and those whose successors are due.
RECURSIVE ReachableApps(_, _, _)
ReachableApps(seen, frontier, ks) ==
    IF frontier = {} THEN seen
    ELSE LET next == {App_handle_input(a, k) : a \in frontier, k \in ks}
             new == next \ seen
         IN  ReachableApps(seen \cup new, new, ks)

\* Whether handle_input aborts on an index out of range: the palette lookup
\* on Enter, or the cell write on the paint key.
App_handle_input_panics(self, k) ==
    IF IsSome(self.color_picker_overlay)
    THEN LET overlay == ColorPickerOverlay_handle_input(
                            Unwrap(self.color_picker_overlay), k)
         IN  k = "Enter" /\ overlay.selected_color + 1 \notin DOMAIN overlay.colors
    ELSE /\ k = " "
         /\ self.selected_tool \in {"Pencil", "Eraser"}
         /\ set_cell_color_panics(self.drawing_widget,
                                  self.drawing_widget.cursor[1],
                                  self.drawing_widget.cursor[2])

\* ------------------------------------------------------------------ actions
SetApp(a) ==
    /\ drawing_widget' = a.drawing_widget
    /\ tools_widget' = a.tools_widget
    /\ color_picker_overlay' = a.color_picker_overlay
    /\ selected_tool' = a.selected_tool
    /\ selected_color' = a.selected_color

\* One event dispatched through App::handle_input.
Dispatch(k) ==
    /\ ~panicked
    /\ key' = k
    /\ IF App_handle_input_panics(app, k)
       THEN panicked' = TRUE /\ UNCHANGED appVars
       ELSE panicked' = FALSE /\ SetApp(App_handle_input(app, k))

HandleInput ==
    /\ nkeys < MaxKeys
    /\ \E k \in KeyCode : Dispatch(k)
    /\ nkeys' = nkeys + 1
    /\ UNCHANGED <<call, ncalls>>
    /\ UNCHANGED mainVars

\* main as it stands inside its loop, waiting for an event: the position the
\* specifications that drive App directly keep it in.
MainInLoop ==
    /\ pc = "read"
    /\ raw_mode = TRUE
    /\ alternate_screen = TRUE
    /\ result = <<"running">>
    /\ event = "none"
    /\ frame = None
    /\ draws = 0
    /\ nevents = 0

Init ==
    /\ MainInLoop
    /\ drawing_widget = App_new.drawing_widget
    /\ tools_widget = App_new.tools_widget
    /\ color_picker_overlay = App_new.color_picker_overlay
    /\ selected_tool = App_new.selected_tool
    /\ selected_color = App_new.selected_color
    /\ panicked = FALSE
    /\ key = "none"
    /\ call = <<"none">>
    /\ nkeys = 0
    /\ ncalls = 0

Next == HandleInput

Spec == Init /\ [][Next]_vars

\* ------------------------------------------- the widget from any cursor
\* Deltas handed to move_cursor: the small ones, and one grid width either way.
Deltas == (-MaxDelta .. MaxDelta) \cup {-Width, Width}

\* Coordinates handed to set_cell_color: the corners of the grid and the
\* first position past each edge (usize, so never negative).
CoordsX == {0, Width - 1, Width}
CoordsY == {0, Height - 1, Height}
CallColors == {"Reset", "Red", "White"}

Cursors == {<<x, y>> : x \in 0 .. Width - 1, y \in 0 .. Height - 1}

\* Grids the widget starts from: the new one, and the one left by painting
\* the top right cell with the default colour.
InitGrids ==
    {App_new.drawing_widget.grid,
     [App_new.drawing_widget.grid EXCEPT ![1][Width] = App_new.selected_color]}

\* States the arrow keys and the paint key reach from App::new(): any cursor
\* over one of the start grids.
InitWidget ==
    /\ MainInLoop
    /\ \E c \in Cursors, g \in InitGrids :
          drawing_widget = [grid |-> g, cursor |-> c]
    /\ tools_widget = App_new.tools_widget
    /\ color_picker_overlay = App_new.color_picker_overlay
    /\ selected_tool = App_new.selected_tool
    /\ selected_color = App_new.selected_color
    /\ panicked = FALSE
    /\ key = "none"
    /\ call = <<"none">>
    /\ nkeys = 0
    /\ ncalls = 0

MoveCursorCall ==
    /\ ncalls < MaxCalls
    /\ ~panicked
    /\ \E dx \in Deltas, dy \in Deltas :
          /\ drawing_widget' = move_cursor(drawing_widget, dx, dy)
          /\ call' = <<"move_cursor", dx, dy>>
    /\ ncalls' = ncalls + 1
    /\ UNCHANGED <<tools_widget, color_picker_overlay, selected_tool,
                   selected_color, panicked, key, nkeys>>
    /\ UNCHANGED mainVars

SetCellColorCall ==
    /\ ncalls < MaxCalls
    /\ ~panicked
    /\ \E x \in CoordsX, y \in CoordsY, color \in CallColors :
          /\ IF set_cell_color_panics(drawing_widget, x, y)
             THEN panicked' = TRUE /\ UNCHANGED drawing_widget
             ELSE /\ panicked' = FALSE
                  /\ drawing_widget' = set_cell_color(drawing_widget, x, y, color)
          /\ call' = <<"set_cell_color", x, y, color>>
    /\ ncalls' = ncalls + 1
    /\ UNCHANGED <<tools_widget, color_picker_overlay, selected_tool,
                   selected_color, key, nkeys>>
    /\ UNCHANGED mainVars

\* The arrow keys: the arms of App::handle_input that call move_cursor.
ArrowKeys == {"Up", "Down", "Left", "Right"}

HandleInputCall ==
    /\ ncalls < MaxCalls
    /\ \E k \in ArrowKeys :
          /\ Dispatch(k)
          /\ call' = <<"handle_input", k>>
    /\ ncalls' = ncalls + 1
    /\ UNCHANGED nkeys
    /\ UNCHANGED mainVars

NextWidget == MoveCursorCall \/ SetCellColorCall \/ HandleInputCall

SpecWidget == InitWidget /\ [][NextWidget]_vars

\* --------------------------------------------------------------------- main
\* What event::read can return besides an error: a key event with one of
\* the codes above or with Char('q'), or an event that is not a key event.
NonKeyEvents == {"Resize"}
Events == KeyCode \cup {"q"} \cup NonKeyEvents

\* main returns Err from the statement it is at, which ends in `?`.
ReturnErr ==
    /\ pc' = "exited"
    /\ result' = <<"Err", pc>>

\* Variant: the overlay is drawn when the active tool is ColorPicker.
main_draw_overlay_by_tool(self) ==
    [canvas      |-> self.drawing_widget.grid,
     cursor      |-> self.drawing_widget.cursor,
     highlighted |-> self.tools_widget.selected_tool,
     overlay     |-> IF self.selected_tool = "ColorPicker"
                        /\ IsSome(self.color_picker_overlay)
                     THEN LET o == Unwrap(self.color_picker_overlay)
                          IN  Some([colors  |-> o.colors,
                                    preview |-> o.colors[o.selected_color + 1]])
                     ELSE None]

\* The closure handed to terminal.draw: the canvas with its cursor, the tool
\* indicator, and the overlay with its preview when one is open.
main_draw(self) ==
    [canvas      |-> self.drawing_widget.grid,
     cursor      |-> self.drawing_widget.cursor,
     highlighted |-> self.tools_widget.selected_tool,
     overlay     |-> IF IsSome(self.color_picker_overlay)
                     THEN LET o == Unwrap(self.color_picker_overlay)
                          IN  Some([colors  |-> o.colors,
                                    preview |-> o.colors[o.selected_color + 1]])
                     ELSE None]

\* Variant: with the overlay open, Char('q') closes the overlay instead of
\* leaving the loop.
main_handle_event_q_closes_overlay(self, e) ==
    IF e \in NonKeyEvents
    THEN [break |-> FALSE, dispatched |-> FALSE, app |-> self]
    ELSE IF e = "q"
         THEN IF IsSome(self.color_picker_overlay)
              THEN [break |-> FALSE, dispatched |-> FALSE,
                    app |-> [self EXCEPT !.color_picker_overlay = None]]
              ELSE [break |-> TRUE, dispatched |-> FALSE, app |-> self]
         ELSE [break |-> FALSE, dispatched |-> TRUE,
               app |-> App_handle_input(self, e)]

\* The body of the loop after event::read has returned e: whether the loop
\* is left, whether App::handle_input was called, and the App afterwards.
main_handle_event(self, e) ==
    IF e \in NonKeyEvents
    THEN [break |-> FALSE, dispatched |-> FALSE, app |-> self]
    ELSE IF e = "q"
         THEN [break |-> TRUE, dispatched |-> FALSE, app |-> self]
         ELSE [break |-> FALSE, dispatched |-> TRUE,
               app |-> App_handle_input(self, e)]

InitMain ==
    /\ drawing_widget = App_new.drawing_widget
    /\ tools_widget = App_new.tools_widget
    /\ color_picker_overlay = App_new.color_picker_overlay
    /\ selected_tool = App_new.selected_tool
    /\ selected_color = App_new.selected_color
    /\ panicked = FALSE
    /\ key = "none"
    /\ call = <<"none">>
    /\ nkeys = 0
    /\ ncalls = 0
    /\ pc = "enable_raw_mode"
    /\ raw_mode = FALSE
    /\ alternate_screen = FALSE
    /\ result = <<"running">>
    /\ event = "none"
    /\ frame = None
    /\ draws = 0
    /\ nevents = 0

\* enable_raw_mode()?
EnableRawMode ==
    /\ pc = "enable_raw_mode"
    /\ \E ok \in BOOLEAN :
          IF ok
          THEN raw_mode' = TRUE /\ pc' = "enter_alternate_screen"
                 /\ UNCHANGED result
          ELSE ReturnErr /\ UNCHANGED raw_mode
    /\ UNCHANGED <<appVars, panicked, key, call, nkeys, ncalls,
                   alternate_screen, event, frame, draws, nevents>>

\* execute!(io::stdout(), EnterAlternateScreen)?
EnterAlternateScreen ==
    /\ pc = "enter_alternate_screen"
    /\ \E ok \in BOOLEAN :
          IF ok
          THEN alternate_screen' = TRUE /\ pc' = "clear" /\ UNCHANGED result
          ELSE ReturnErr /\ UNCHANGED alternate_screen
    /\ UNCHANGED <<appVars, panicked, key, call, nkeys, ncalls,
                   raw_mode, event, frame, draws, nevents>>

\* execute!(io::stdout(), Clear(ClearType::All))?
ClearScreen ==
    /\ pc = "clear"
    /\ \E ok \in BOOLEAN :
          IF ok THEN pc' = "terminal_new" /\ UNCHANGED result ELSE ReturnErr
    /\ UNCHANGED <<appVars, panicked, key, call, nkeys, ncalls,
                   raw_mode, alternate_screen, event, frame, draws, nevents>>

\* Terminal::new(backend)?, then App::new() and into the loop.
TerminalNew ==
    /\ pc = "terminal_new"
    /\ \E ok \in BOOLEAN :
          IF ok
          THEN pc' = "draw" /\ SetApp(App_new) /\ UNCHANGED result
          ELSE ReturnErr /\ UNCHANGED appVars
    /\ UNCHANGED <<panicked, key, call, nkeys, ncalls,
                   raw_mode, alternate_screen, event, frame, draws, nevents>>

\* terminal.draw(|f| ...)?
Draw ==
    /\ pc = "draw"
    /\ \E ok \in BOOLEAN :
          IF ok
          THEN /\ frame' = Some(main_draw(app))
               /\ draws' = draws + 1
               /\ pc' = "read"
               /\ UNCHANGED result
          ELSE ReturnErr /\ UNCHANGED <<frame, draws>>
    /\ UNCHANGED <<appVars, panicked, key, call, nkeys, ncalls,
                   raw_mode, alternate_screen, event, nevents>>

\* if let Event::Key(key) = event::read()? { match key.code { ... } }
ReadEvent ==
    /\ pc = "read"
    /\ nevents < MaxEvents
    /\ \/ /\ ReturnErr
          /\ UNCHANGED <<appVars, panicked, key, event, draws, nevents>>
       \/ \E e \in Events :
             LET r == main_handle_event(app, e)
             IN  /\ event' = e
                 /\ nevents' = nevents + 1
                 /\ draws' = 0
                 /\ IF r.dispatched /\ App_handle_input_panics(app, e)
                    THEN /\ panicked' = TRUE
                         /\ pc' = "exited"
                         /\ result' = <<"panic">>
                         /\ key' = e
                         /\ UNCHANGED appVars
                    ELSE /\ panicked' = FALSE
                         /\ UNCHANGED result
                         /\ SetApp(r.app)
                         /\ key' = IF r.dispatched THEN e ELSE key
                         /\ pc' = IF r.break THEN "disable_raw_mode" ELSE "draw"
    /\ UNCHANGED <<call, nkeys, ncalls, raw_mode, alternate_screen, frame>>

\* disable_raw_mode()?
DisableRawMode ==
    /\ pc = "disable_raw_mode"
    /\ \E ok \in BOOLEAN :
          IF ok
          THEN raw_mode' = FALSE /\ pc' = "leave_alternate_screen"
                 /\ UNCHANGED result
          ELSE ReturnErr /\ UNCHANGED raw_mode
    /\ UNCHANGED <<appVars, panicked, key, call, nkeys, ncalls,
                   alternate_screen, event, frame, draws, nevents>>

\* execute!(io::stdout(), LeaveAlternateScreen)?; Ok(())
LeaveAlternateScreen ==
    /\ pc = "leave_alternate_screen"
    /\ \E ok \in BOOLEAN :
          IF ok
          THEN alternate_screen' = FALSE /\ pc' = "exited"
                 /\ result' = <<"Ok">>
          ELSE ReturnErr /\ UNCHANGED alternate_screen
    /\ UNCHANGED <<appVars, panicked, key, call, nkeys, ncalls,
                   raw_mode, event, frame, draws, nevents>>

NextMain ==
    \/ EnableRawMode
    \/ EnterAlternateScreen
    \/ ClearScreen
    \/ TerminalNew
    \/ Draw
    \/ ReadEvent
    \/ DisableRawMode
    \/ LeaveAlternateScreen

SpecMain == InitMain /\ [][NextMain]_vars

\* ------------------------------------------------------------- properties
\* Shorthands for the state the properties talk about.
Cursor == drawing_widget.cursor
Grid == drawing_widget.grid
PaletteOpen == IsSome(color_picker_overlay)
Normal == ~PaletteOpen
Index == Unwrap(color_picker_overlay).selected_color
PaletteColor(i) == ColorPickerOverlay_new.colors[i + 1]
\* The widget with cell (x, y) holding color and nothing else different.
WithCell(w, x, y, color) == [w EXCEPT !.grid[y + 1][x + 1] = color]
Painted == {c \in Cursors : Grid[c[2] + 1][c[1] + 1] # "Reset"}

\* C1: the cursor is inside the grid, 0 <= x < width and 0 <= y < height,
\* after every direct move_cursor call with any delta from any in-bounds
\* cursor and after every arrow key dispatched through App::handle_input.
C1_CursorInBounds ==
    /\ Cursor[1] >= 0 /\ Cursor[1] < Width
    /\ Cursor[2] >= 0 /\ Cursor[2] < Height

\* A move of one grid width to the right and down has been attempted from
\* the far corner and the cursor is still there.
C1_Witness ==
    /\ call = <<"move_cursor", Width, Width>>
    /\ Cursor = <<Width - 1, Height - 1>>

\* C2: with the overlay open at index i, Enter closes the overlay and sets
\* the chosen colour to palette colour i, the index held before the Enter;
\* the overlay's own handler leaves the overlay as it is on Enter.
C2_EnterCommitsSelection ==
    [][(PaletteOpen /\ key' = "Enter") =>
          /\ ~panicked'
          /\ color_picker_overlay' = None
          /\ selected_color' = PaletteColor(Index)
          /\ ColorPickerOverlay_handle_input(Unwrap(color_picker_overlay), "Enter")
                = Unwrap(color_picker_overlay)]_vars

\* Enter has just confirmed index 5 (Magenta).
C2_Witness ==
    /\ key = "Enter"
    /\ Normal
    /\ selected_color = "Magenta"

\* C3: with the overlay open, a key other than Enter leaves the grid, the
\* cursor, the active tool and the chosen colour unchanged and the overlay
\* open with the same palette; only the selection index may differ.
C3_OverlaySwallowsKeys ==
    [][(PaletteOpen /\ key' # "Enter") =>
          /\ drawing_widget' = drawing_widget
          /\ selected_tool' = selected_tool
          /\ selected_color' = selected_color
          /\ IsSome(color_picker_overlay')
          /\ Unwrap(color_picker_overlay').colors
                = Unwrap(color_picker_overlay).colors]_vars

\* '2' has been pressed with the overlay open and the tool is still Pencil.
C3_Witness ==
    /\ PaletteOpen
    /\ key = "2"
    /\ selected_tool = "Pencil"
    /\ Index = 3

\* C4: in Normal mode with Pencil active, space writes the chosen colour
\* into the cell at the cursor and changes no other cell and not the cursor;
\* from the initial state with Red chosen, Right Right Down Space leaves
\* cell (2,1) Red and every other cell unset.
C4_PencilPaintsCursorCell ==
    /\ [][(Normal /\ selected_tool = "Pencil" /\ key' = " ") =>
             /\ ~panicked'
             /\ drawing_widget' =
                   WithCell(drawing_widget, Cursor[1], Cursor[2], selected_color)]_vars
    /\ []((/\ Normal
           /\ drawing_widget = App_new.drawing_widget
           /\ selected_tool = "Pencil"
           /\ selected_color = "Red")
          => RunKeys(app, <<"Right", "Right", "Down", " ">>).drawing_widget.grid
               = WithCell(App_new.drawing_widget, 2, 1, "Red").grid)

\* The scenario has been played: Red chosen, then Right Right Down Space.
C4_Witness ==
    /\ key = " "
    /\ nkeys = 7
    /\ selected_tool = "Pencil"
    /\ selected_color = "Red"
    /\ Cursor = <<2, 1>>
    /\ Grid = WithCell(App_new.drawing_widget, 2, 1, "Red").grid

\* C5: in Normal mode, '2' followed by space sets the cell at the cursor to
\* the unset colour, whatever it held, and changes no other cell.
C5_EraserResetsCursorCell ==
    [][(Normal /\ key = "2" /\ key' = " ") =>
          /\ ~panicked'
          /\ drawing_widget' =
                WithCell(drawing_widget, Cursor[1], Cursor[2], "Reset")]_vars

\* Space has been pressed with the Eraser on the cursor cell while another
\* cell stays painted.
C5_Witness ==
    /\ key = " "
    /\ Normal
    /\ selected_tool = "Eraser"
    /\ Grid[Cursor[2] + 1][Cursor[1] + 1] = "Reset"
    /\ Cursor = <<0, 0>>
    /\ Grid[1][2] = "White"

\* C6: with the overlay open at index i, Up gives i-4 if i >= 4 else i, Down
\* gives i+4 if i+4 <= 7 else i, Left gives i-1 if i > 0 else i, Right gives
\* i+1 if i < 7 else i; the index is in 0..7 whenever the overlay is open.
C6_PaletteNavigation ==
    /\ [][(PaletteOpen /\ IsSome(color_picker_overlay')) =>
             LET i == Index
                 j == Unwrap(color_picker_overlay').selected_color
             IN  /\ key' = "Up" => j = IF i >= 4 THEN i - 4 ELSE i
                 /\ key' = "Down" => j = IF i + 4 <= 7 THEN i + 4 ELSE i
                 /\ key' = "Left" => j = IF i > 0 THEN i - 1 ELSE i
                 /\ key' = "Right" => j = IF i < 7 THEN i + 1 ELSE i]_vars
    /\ [](PaletteOpen => Index \in 0 .. 7)

\* Right has just moved the selection from the end of the first row to the
\* start of the second.
C6_Witness ==
    /\ PaletteOpen
    /\ key = "Right"
    /\ Index = 4

\* C7: from every index i the overlay can hold, a legal Up followed by Down
\* returns to i, and so do a legal Left followed by Right, a legal Down
\* followed by Up and a legal Right followed by Left.
C7_NavigationRoundTrips ==
    PaletteOpen =>
        LET o == Unwrap(color_picker_overlay)
            i == o.selected_color
            Go(k1, k2) == ColorPickerOverlay_handle_input(
                              ColorPickerOverlay_handle_input(o, k1), k2)
        IN  /\ i >= 4 => Go("Up", "Down").selected_color = i
            /\ i > 0 => Go("Left", "Right").selected_color = i
            /\ i + 4 <= 7 => Go("Down", "Up").selected_color = i
            /\ i < 7 => Go("Right", "Left").selected_color = i

\* The overlay has come back to index 5 by Right after the other keys were
\* used: Up, Left and Right are all legal first steps there.
C7_Witness ==
    /\ PaletteOpen
    /\ key = "Right"
    /\ Index = 5
    /\ nkeys >= 4

\* C8: '3' in Normal mode opens the overlay at index 0 whatever was selected
\* or confirmed before, so '3' followed by Enter sets the chosen colour to
\* Black and ends in Normal mode.
C8_FreshOverlayStartsAtZero ==
    /\ [][(Normal /\ key' = "3") =>
             /\ IsSome(color_picker_overlay')
             /\ Unwrap(color_picker_overlay') = ColorPickerOverlay_new
             /\ Unwrap(color_picker_overlay').selected_color = 0]_vars
    /\ [](Normal =>
             LET a == RunKeys(app, <<"3", "Enter">>)
             IN  /\ a.selected_color = "Black"
                 /\ a.color_picker_overlay = None)

\* The overlay has been opened again after an earlier opening confirmed
\* index 4 (Blue).
C8_Witness ==
    /\ key = "3"
    /\ PaletteOpen
    /\ Index = 0
    /\ selected_color = "Blue"

\* C9: move_cursor(dx, dy) sets x to x+dx if 0 <= x+dx < width and leaves it
\* otherwise, and independently sets y to y+dy if 0 <= y+dy < height and
\* leaves it otherwise; the grid is not touched.
C9_MoveCursorPerAxis ==
    [][(call'[1] = "move_cursor") =>
          LET x == Cursor[1]
              y == Cursor[2]
              dx == call'[2]
              dy == call'[3]
          IN  /\ drawing_widget'.cursor =
                    <<IF 0 <= x + dx /\ x + dx < Width THEN x + dx ELSE x,
                      IF 0 <= y + dy /\ y + dy < Height THEN y + dy ELSE y>>
              /\ drawing_widget'.grid = Grid]_vars

\* A move one grid width to the right, which no column allows, and one row
\* down has moved the cursor down from the top row of column 3.
C9_Witness ==
    /\ call = <<"move_cursor", Width, 1>>
    /\ ncalls = 1
    /\ Cursor = <<3, 1>>
    /\ Painted = {}

\* C10: set_cell_color(x, y, colour) with x >= width or y >= height leaves
\* the widget as it is and does not abort; with (x, y) inside the grid it
\* changes cell (x, y) and nothing else.
C10_SetCellColorBounds ==
    [][(call'[1] = "set_cell_color") =>
          LET x == call'[2]
              y == call'[3]
              color == call'[4]
          IN  /\ ~panicked'
              /\ drawing_widget' =
                    IF x < Width /\ y < Height
                    THEN WithCell(drawing_widget, x, y, color)
                    ELSE drawing_widget]_vars

\* A write one column past the right edge has been made on a grid that
\* already holds a painted cell, which is still there.
C10_Witness ==
    /\ call = <<"set_cell_color", Width, 0, "Red">>
    /\ ~panicked
    /\ Painted = {<<Width - 1, 0>>}
    /\ Grid[1][Width] = "White"

\* C11: in Normal mode '1' makes Pencil the active tool, '2' makes Eraser
\* the active tool and '3' makes ColorPicker the active tool.
C11_ToolKeysSwitchTool ==
    [][Normal =>
          /\ key' = "1" => selected_tool' = "Pencil"
          /\ key' = "2" => selected_tool' = "Eraser"
          /\ key' = "3" => selected_tool' = "ColorPicker"]_vars

\* C12: the tool the indicator highlights, ToolsWidget.selected_tool, is the
\* active tool, App.selected_tool, in every reachable state.
C12_HighlightedToolIsActive ==
    tools_widget.selected_tool = selected_tool

\* Shorthands for the driver.
Restored == ~raw_mode /\ ~alternate_screen
LoopLeft == pc \in {"disable_raw_mode", "leave_alternate_screen", "exited"}

\* C13: when main has exited by the quit key, by a failure of terminal.draw
\* or by a failure of event::read, raw mode is disabled and the alternate
\* screen has been left.
C13_TerminalRestoredOnExit ==
    (/\ pc = "exited"
     /\ \/ event = "q"
        \/ result \in {<<"Err", "draw">>, <<"Err", "read">>})
    => Restored

\* C14: a 'q' event leaves the loop without a call of App::handle_input, in
\* Normal and in PaletteOpen mode alike: the App is what it was, and once
\* the loop is left no event is read and the App no longer changes.
C14_QuitLeavesLoopUntouched ==
    /\ [][(pc = "read" /\ event' = "q") =>
             /\ pc' = "disable_raw_mode"
             /\ UNCHANGED appVars
             /\ key' = key]_vars
    /\ [][LoopLeft =>
             /\ LoopLeft'
             /\ nevents' = nevents
             /\ UNCHANGED appVars]_vars
    /\ [](key # "q")

\* 'q' has been read with the overlay open at index 1 and main has returned
\* Ok with the overlay still there.
C14_Witness ==
    /\ event = "q"
    /\ result = <<"Ok">>
    /\ PaletteOpen
    /\ Index = 1
    /\ key = "Right"

\* C15: in Normal mode '1', '2' and '3' change no cell, do not move the
\* cursor and do not change the chosen colour; the active tool is one of
\* the three tools in every reachable state.
C15_ToolSwitchHasNoSideEffect ==
    /\ [][(Normal /\ key' \in {"1", "2", "3"}) =>
             /\ drawing_widget' = drawing_widget
             /\ selected_color' = selected_color]_vars
    /\ [](selected_tool \in Tool)

\* '2' has been pressed in Normal mode over a painted cell away from the
\* origin, and the cell is still painted.
C15_Witness ==
    /\ key = "2"
    /\ Normal
    /\ selected_tool = "Eraser"
    /\ Cursor = <<1, 1>>
    /\ Painted = {<<1, 1>>}

\* C16: in Normal mode a key other than '1', '2', '3', the arrows and space
\* leaves the grid, the cursor, the active tool and the chosen colour
\* unchanged and the mode Normal.
C16_OtherKeysIgnored ==
    [][(Normal /\ key' \notin {"1", "2", "3", " "} \cup ArrowKeys) =>
          /\ drawing_widget' = drawing_widget
          /\ tools_widget' = tools_widget
          /\ selected_tool' = selected_tool
          /\ selected_color' = selected_color
          /\ color_picker_overlay' = None]_vars

\* Enter has been pressed in Normal mode with the Eraser active over a
\* painted cell.
C16_Witness ==
    /\ key = "Enter"
    /\ Normal
    /\ selected_color = "White"
    /\ selected_tool = "Eraser"
    /\ Painted = {<<0, 0>>}
    /\ Cursor = <<0, 0>>

\* C17: a key event other than quit is dispatched through App::handle_input
\* in one step, after which main draws before it reads; whenever main is
\* about to read, exactly one frame has been drawn since the previous event
\* and that frame shows the overlay exactly if the overlay is open.
C17_DispatchThenOneRender ==
    /\ [][(pc = "read" /\ nevents' = nevents + 1 /\ event' \in KeyCode) =>
             /\ SetApp(App_handle_input(app, event'))
             /\ key' = event'
             /\ pc' = "draw"
             /\ draws' = 0]_vars
    /\ [][(pc = "draw") => (pc' \in {"read", "exited"} /\ nevents' = nevents)]_vars
    /\ [](pc = "read" =>
             /\ draws = 1
             /\ IsSome(frame)
             /\ IsSome(Unwrap(frame).overlay) <=> PaletteOpen)

\* main waits for the next event after '3' was dispatched and one frame
\* with the overlay was drawn.
C17_Witness ==
    /\ pc = "read"
    /\ event = "3"
    /\ nevents = 1
    /\ draws = 1
    /\ PaletteOpen
    /\ IsSome(Unwrap(frame).overlay)

\* The eight colours of the palette.
PaletteColors == {PaletteColor(i) : i \in 0 .. 7}

\* C18: the chosen colour is one of the eight palette colours and never the
\* unset colour, every cell holds the unset colour or a palette colour, and
\* the Pencil never leaves the unset colour in the cell it writes.
C18_ColoursStayInPalette ==
    /\ [](/\ Cardinality(PaletteColors) = 8
          /\ "Reset" \notin PaletteColors
          /\ selected_color \in PaletteColors
          /\ \A c \in Cursors :
                Grid[c[2] + 1][c[1] + 1] \in PaletteColors \cup {"Reset"})
    /\ [][(Normal /\ selected_tool = "Pencil" /\ key' = " ") =>
             drawing_widget'.grid[Cursor[2] + 1][Cursor[1] + 1] # "Reset"]_vars

\* The Pencil has just written Black, confirmed at index 0, next to a
\* cell painted in the start colour.
C18_Witness ==
    /\ key = " "
    /\ selected_tool = "Pencil"
    /\ selected_color = "Black"
    /\ Grid[1][1] = "White"
    /\ Grid[1][2] = "Black"
    /\ Cursor = <<1, 0>>

\* C19: the chosen colour changes only by an Enter dispatched with the
\* overlay open; the overlay is closed only by Enter and opened only by '3'
\* in Normal mode.
C19_ColourChangesOnlyOnConfirm ==
    [][/\ selected_color' # selected_color => (PaletteOpen /\ key' = "Enter")
       /\ (PaletteOpen /\ ~IsSome(color_picker_overlay')) => key' = "Enter"
       /\ (Normal /\ IsSome(color_picker_overlay')) => key' = "3"]_vars

\* Enter has confirmed index 2 (Green) at the fifth key or later, so after
\* keys besides '3', Right, Right were dispatched, with nothing painted and
\* the cursor at the origin.
C19_Witness ==
    /\ key = "Enter"
    /\ Normal
    /\ selected_color = "Green"
    /\ selected_tool = "Pencil"
    /\ Painted = {}
    /\ nkeys >= 5
    /\ Cursor = <<0, 0>>

\* The overlay states the arrow keys lead to after '3' is pressed in a.
OverlayApps(a) ==
    LET opened == App_handle_input(a, "3")
    IN  ReachableApps({opened}, {opened}, ArrowKeys)

\* The states Enter leads to from those.
ConfirmedApps(a) == {App_handle_input(o, "Enter") : o \in OverlayApps(a)}

\* The cursor and colour of b if the paint key puts the colour into the
\* cell under the cursor.
PaintedBy(b) ==
    LET c == b.drawing_widget.cursor
        p == App_handle_input(b, " ")
    IN  IF /\ ~IsSome(b.color_picker_overlay)
           /\ p.drawing_widget.grid[c[2] + 1][c[1] + 1] = b.selected_color
        THEN {<<c, b.selected_color>>}
        ELSE {}

\* C20: from the state after construction, '3' and the arrow keys lead the
\* overlay to every index 0..7 and Enter then makes each of the eight
\* palette colours the chosen colour; the arrow keys lead the cursor to
\* every cell, and there each palette colour can be chosen and is put into
\* the cell by the paint key.
C20_EveryIndexColourAndCellReachable ==
    nkeys = 0 =>
        /\ {Unwrap(o.color_picker_overlay).selected_color : o \in OverlayApps(app)}
             = 0 .. 7
        /\ {b.selected_color : b \in ConfirmedApps(app)} = PaletteColors
        /\ {a.drawing_widget.cursor : a \in ReachableApps({app}, {app}, ArrowKeys)}
             = Cursors
        /\ (Cursors \X PaletteColors) \subseteq
             UNION {UNION {PaintedBy(b) : b \in ConfirmedApps(a)} :
                      a \in ReachableApps({app}, {app}, ArrowKeys)}

\* Index 6 (Cyan) has been confirmed, the cursor moved one cell to the
\* right and that cell painted Cyan.
C20_Witness ==
    /\ key = " "
    /\ selected_color = "Cyan"
    /\ Cursor = <<1, 0>>
    /\ Grid[1][2] = "Cyan"
    /\ Painted = {<<1, 0>>}

====
